---- MODULE Spec2Model ----
(***************************************************************************)
(* pyramid_animation: leaf tracks (curve_track.rs CurveTrack, animation.rs *)
(* Animation), their construction from Pon configuration, and the track    *)
(* dispatch of track.rs.                                                   *)
(*                                                                         *)
(* Durations are whole milliseconds (time::Duration::num_milliseconds).    *)
(* An f32 is modelled by the exact rational it denotes, [n |-> numerator,  *)
(* d |-> denominator] in lowest terms with d > 0; the IEEE specials are    *)
(* the records with d = 0: n = 0 is NaN, n = 1 is +inf, n = -1 is -inf.    *)
(* Within the bounds used every i64 -> f32 conversion is exact (< 2^24),   *)
(* except for the one-week times, which only reach a FixedValueCurve.      *)
(***************************************************************************)
EXTENDS Integers, Sequences, FiniteSets, TLC

VARIABLES
    config,     \* the configuration handed to the last translation
    ctx,        \* the TranslateContext handed to it
    outcome,    \* what construction returned: Ok, Err(error) or a panic
    track,      \* the constructed track
    op,         \* the last operation: "init", "translate", "new", "literal", "value_at"
    elapsed,    \* the elapsed time of the last evaluation, in ms
    result      \* what the last evaluation returned

vars == <<config, ctx, outcome, track, op, elapsed, result>>

(***************************************************************************)
(* f32 arithmetic                                                          *)
(***************************************************************************)
Abs(i) == IF i < 0 THEN 0 - i ELSE i

Sign(i) == IF i < 0 THEN 0 - 1 ELSE IF i = 0 THEN 0 ELSE 1

RECURSIVE Gcd(_, _)
Gcd(a, b) == IF b = 0 THEN a ELSE Gcd(b, a % b)

\* The f32 n/d, in lowest terms; x/0 is an IEEE special.
F32(n, d) ==
    IF d = 0 THEN [n |-> Sign(n), d |-> 0]
    ELSE LET g == Gcd(Abs(n), Abs(d))
         IN  [n |-> Sign(d) * (n \div g), d |-> Abs(d) \div g]

IsNaN(a) == a.d = 0 /\ a.n = 0

\* a <= b on f32: false when either side is NaN.
F32Leq(a, b) ==
    /\ ~IsNaN(a)
    /\ ~IsNaN(b)
    /\ IF a.d = 0 THEN a.n = 0 - 1 \/ (b.d = 0 /\ b.n = 1)
       ELSE IF b.d = 0 THEN b.n = 1
       ELSE a.n * b.d <= b.n * a.d

F32Lt(a, b) == F32Leq(a, b) /\ a # b

F32Add(a, b) == F32(a.n * b.d + b.n * a.d, a.d * b.d)

F32Sub(a, b) == F32(a.n * b.d - b.n * a.d, a.d * b.d)

F32Mul(a, b) == F32(a.n * b.n, a.d * b.d)

F32Div(a, b) == F32(a.n * b.d, a.d * b.n)

NaN == [n |-> 0, d |-> 0]

\* i64 as f32
AsF32(i) == F32(i, 1)

(***************************************************************************)
(* Curves.  curve.rs and animatable.rs are not among the sources; the      *)
(* curve variants follow sections 4.2 and 4.3 of the specification.        *)
(* A value V is an f32 (Animation) or an Animatable, [value |-> <<f32>>]   *)
(* (CurveTrack).  A Key(time, value) is the pair <<time, value>>.          *)
(***************************************************************************)
IsAnimatable(v) == "value" \in DOMAIN v

new_float(f) == [value |-> <<f>>]

\* a + (b - a) * f, componentwise for an Animatable
Lerp(a, b, f) ==
    IF IsAnimatable(a)
    THEN [value |-> [i \in DOMAIN a.value |->
                        F32Add(a.value[i], F32Mul(F32Sub(b.value[i], a.value[i]), f))]]
    ELSE F32Add(a, F32Mul(F32Sub(b, a), f))

NaNLike(v) == IF IsAnimatable(v) THEN [value |-> [i \in DOMAIN v.value |-> NaN]] ELSE NaN

FixedValueCurve_value(self, t) == self.value

\* Clamp at both edges, otherwise interpolate in the bracketing pair.  A NaN
\* parameter satisfies no comparison and yields a NaN value.
LinearKeyFrameCurve_value(self, t) ==
    LET keys == self.keys
        last == Len(keys)
    IN  IF F32Leq(t, keys[1][1]) THEN keys[1][2]
        ELSE IF F32Leq(keys[last][1], t) THEN keys[last][2]
        ELSE IF \E i \in 1..(last - 1) : F32Leq(keys[i][1], t) /\ F32Lt(t, keys[i + 1][1])
        THEN LET i == CHOOSE j \in 1..(last - 1) :
                          F32Leq(keys[j][1], t) /\ F32Lt(t, keys[j + 1][1])
             IN  Lerp(keys[i][2], keys[i + 1][2],
                      F32Div(F32Sub(t, keys[i][1]), F32Sub(keys[i + 1][1], keys[i][1])))
        ELSE NaNLike(keys[1][2])

Curve_value(curve, t) ==
    IF curve.type = "FixedValueCurve" THEN FixedValueCurve_value(curve, t)
    ELSE LinearKeyFrameCurve_value(curve, t)

(***************************************************************************)
(* Results of a call of value_at/update: the returned sequence of          *)
(* (property, value) pairs, or a panic (which unwinds out of the call).    *)
(* sampled lists the parameters the curves were sampled at (the last       *)
(* `let time` of the leaf evaluation), in the order of the pairs.          *)
(***************************************************************************)
Returned(pairs, sampled) == [panic |-> FALSE, pairs |-> pairs, sampled |-> sampled]

Panicked == [panic |-> TRUE, pairs |-> <<>>, sampled |-> <<>>]

(***************************************************************************)
(* Leaf tracks                                                             *)
(***************************************************************************)
MsPerSecond == 1000

Week == 604800000

\* i64 %: the remainder has the sign of the dividend.  b is not 0.
Rem(a, b) == Sign(a) * (Abs(a) % Abs(b))

\* new_fixed_value with loop_type Once instead of Forever
CurveTrack_new_fixed_value_once(property, value) ==
    [variant |-> "CurveTrack",
     curve |-> [type |-> "FixedValueCurve", value |-> value],
     offset |-> 0,
     property |-> property,
     loop_type |-> "Once",
     duration |-> Week,
     curve_time |-> "Absolute"]

\* CurveTrack::new_fixed_value
CurveTrack_new_fixed_value(property, value) ==
    [variant |-> "CurveTrack",
     curve |-> [type |-> "FixedValueCurve", value |-> value],
     offset |-> 0,
     property |-> property,
     loop_type |-> "Forever",
     duration |-> Week,
     curve_time |-> "Absolute"]

\* Animation::new_fixed_value
Animation_new_fixed_value(property, value) ==
    [variant |-> "Animation",
     curve |-> [type |-> "FixedValueCurve", value |-> value],
     offset |-> 0,
     property |-> property,
     loop_type |-> "Forever",
     duration |-> Week,
     curve_time |-> "Absolute"]

\* value_at with the finishing test written >= instead of >
CurveTrack_value_at_ge(self, time) ==
    LET t == time - self.offset
    IN  IF t >= self.duration /\ self.loop_type # "Forever" THEN Returned(<<>>, <<>>)
        ELSE IF t >= self.duration /\ self.duration = 0 THEN Panicked
        ELSE LET w == IF t >= self.duration THEN Rem(t, self.duration) ELSE t
                 p == IF self.curve_time = "Absolute"
                      THEN F32Div(AsF32(w), AsF32(MsPerSecond))
                      ELSE F32Div(AsF32(w), AsF32(self.duration))
             IN  Returned(<< <<self.property, Curve_value(self.curve, p)>> >>, <<p>>)

\* <CurveTrack as Track>::value_at.  t is the first `let time`, w the second
\* (a remainder by a zero duration panics), p the third.
CurveTrack_value_at(self, time) ==
    LET t == time - self.offset
    IN  IF t > self.duration /\ self.loop_type # "Forever" THEN Returned(<<>>, <<>>)
        ELSE IF t > self.duration /\ self.duration = 0 THEN Panicked
        ELSE LET w == IF t > self.duration THEN Rem(t, self.duration) ELSE t
                 p == IF self.curve_time = "Absolute"
                      THEN F32Div(AsF32(w), AsF32(MsPerSecond))
                      ELSE F32Div(AsF32(w), AsF32(self.duration))
             IN  Returned(<< <<self.property, Curve_value(self.curve, p)>> >>, <<p>>)

\* update with the finishing test written >= instead of >
Animation_update_ge(self, time) ==
    LET t == time - self.offset
    IN  IF t >= self.duration /\ self.loop_type # "Forever" THEN Returned(<<>>, <<>>)
        ELSE IF t >= self.duration /\ self.duration = 0 THEN Panicked
        ELSE LET w == IF t >= self.duration THEN Rem(t, self.duration) ELSE t
                 p == IF self.curve_time = "Absolute"
                      THEN F32Div(AsF32(w), AsF32(MsPerSecond))
                      ELSE F32Div(AsF32(w), AsF32(self.duration))
             IN  Returned(<< <<self.property, Curve_value(self.curve, p)>> >>, <<p>>)

\* <Animation as Animatable>::update
Animation_update(self, time) ==
    LET t == time - self.offset
    IN  IF t > self.duration /\ self.loop_type # "Forever" THEN Returned(<<>>, <<>>)
        ELSE IF t > self.duration /\ self.duration = 0 THEN Panicked
        ELSE LET w == IF t > self.duration THEN Rem(t, self.duration) ELSE t
                 p == IF self.curve_time = "Absolute"
                      THEN F32Div(AsF32(w), AsF32(MsPerSecond))
                      ELSE F32Div(AsF32(w), AsF32(self.duration))
             IN  Returned(<< <<self.property, Curve_value(self.curve, p)>> >>, <<p>>)

Leaf_value_at(self, time) ==
    IF self.variant = "Animation" THEN Animation_update(self, time)
    ELSE CurveTrack_value_at(self, time)

(***************************************************************************)
(* Composite tracks.  track_set.rs is not among the sources: a TrackSet is *)
(* an ordered list of sub-tracks whose results are concatenated in         *)
(* declaration order (specification, section 4.5).  A panic in a sub-track *)
(* unwinds out of the whole call.                                          *)
(***************************************************************************)
RECURSIVE TrackSet_concat(_, _)
TrackSet_concat(tracks, time) ==
    IF tracks = <<>> THEN Returned(<<>>, <<>>)
    ELSE LET first == Leaf_value_at(Head(tracks), time)
             rest == TrackSet_concat(Tail(tracks), time)
         IN  IF first.panic \/ rest.panic THEN Panicked
             ELSE Returned(first.pairs \o rest.pairs, first.sampled \o rest.sampled)

TrackSet_value_at(self, time) == TrackSet_concat(self.tracks, time)

\* <TrackSetFromResource as Track>::value_at
TrackSetFromResource_value_at(self, time) == TrackSet_value_at(self.resource, time)

\* Track::value_at through the Box<Track> trait object
value_at(self, time) ==
    IF self.variant = "TrackSetFromResource" THEN TrackSetFromResource_value_at(self, time)
    ELSE IF self.variant = "TrackSet" THEN TrackSet_value_at(self, time)
    ELSE Leaf_value_at(self, time)

(***************************************************************************)
(* Translation from Pon.  A translation returns Ok(value), Err(error) or   *)
(* panics.  An optional field of a Pon object is <<>> when absent and      *)
(* <<v>> when present.  A number is the f32 it parses to.                  *)
(***************************************************************************)
NoTrack == [variant |-> "None"]

Ok(v) == [status |-> "Ok", err |-> "", value |-> v]

Err(e) == [status |-> "Err", err |-> e, value |-> NoTrack]

Panic == [status |-> "Panic", err |-> "", value |-> NoTrack]

\* Translatable<Loop>
Loop_inner_translate(pon) ==
    IF pon = "forever" THEN Ok("Forever")
    ELSE IF pon = "once" THEN Ok("Once")
    ELSE Err("InvalidValue")

\* Translatable<CurveTime>
CurveTime_inner_translate(pon) ==
    IF pon = "absolute" THEN Ok("Absolute")
    ELSE IF pon = "relative" THEN Ok("Relative")
    ELSE Err("InvalidValue")

\* `as i64` of a finite f32: truncation toward zero
AsI64(f) == Sign(f.n) * (Abs(f.n) \div f.d)

\* A number translated to an Animatable (as `value: 0.0` is in the tests)
Animatable_translate(f) == new_float(f)

\* Translatable<Key<Animatable>> (curve_track.rs).  arr[0] and arr[1] panic
\* when the array is too short.
CurveTrack_Key_inner_translate(pon) ==
    IF pon.pon = "Object"
    THEN IF pon.time = <<>> \/ pon.value = <<>> THEN Err("MissingField")
         ELSE Ok(<<pon.time[1], Animatable_translate(pon.value[1])>>)
    ELSE IF pon.pon = "Array"
    THEN IF Len(pon.arr) < 2 THEN Panic
         ELSE Ok(<<pon.arr[1], Animatable_translate(pon.arr[2])>>)
    ELSE IF pon.pon = "FloatArray"
    THEN IF Len(pon.arr) < 2 THEN Panic
         ELSE Ok(<<pon.arr[1], [value |-> <<pon.arr[2]>>]>>)
    ELSE Err("MismatchType")

\* Translatable<Key<f32>> (animation.rs)
Animation_Key_inner_translate(pon) ==
    IF pon.pon = "Object"
    THEN IF pon.time = <<>> \/ pon.value = <<>> THEN Err("MissingField")
         ELSE Ok(<<pon.time[1], pon.value[1]>>)
    ELSE IF pon.pon = "Array"
    THEN IF Len(pon.arr) < 2 THEN Panic
         ELSE Ok(<<pon.arr[1], pon.arr[2]>>)
    ELSE IF pon.pon = "FloatArray"
    THEN IF Len(pon.arr) < 2 THEN Panic
         ELSE Ok(<<pon.arr[1], pon.arr[2]>>)
    ELSE Err("MismatchType")

Key_inner_translate(pon, variant) ==
    IF variant = "Animation" THEN Animation_Key_inner_translate(pon)
    ELSE CurveTrack_Key_inner_translate(pon)

\* data.field_as::<Vec<Key<V>>>("keys"): the keys in order, stopping at the
\* first one that does not translate.
RECURSIVE Keys_translate(_, _)
Keys_translate(pons, variant) ==
    IF pons = <<>> THEN Ok(<<>>)
    ELSE LET k == Key_inner_translate(Head(pons), variant)
         IN  IF k.status # "Ok" THEN k
             ELSE LET rest == Keys_translate(Tail(pons), variant)
                  IN  IF rest.status # "Ok" THEN rest
                      ELSE Ok(<<k.value>> \o rest.value)

\* The "key_framed" arm of Translatable<CurveTrack> / Translatable<Animation>,
\* from the keys on: keys_array[0] panics on an empty list.
KeyFramed_curve(data, variant) ==
    IF data.keys = <<>> THEN Err("MissingField")
    ELSE LET keys_array == data.keys[1]
         IN  IF keys_array = <<>> THEN Panic
             ELSE LET as_float == Key_inner_translate(keys_array[1], variant)
                  IN  IF as_float.status = "Panic" THEN Panic
                      ELSE IF as_float.status = "Ok"
                      THEN LET keys == Keys_translate(keys_array, variant)
                           IN  IF keys.status # "Ok" THEN keys
                               ELSE Ok([type |-> "LinearKeyFrameCurve", keys |-> keys.value])
                      ELSE Err("Generic")

\* The "key_framed" arm: the fields in the order the code reads them.
KeyFramed_translate(data, variant) ==
    IF data.property = <<>> THEN Err("MissingField")
    ELSE LET duration == IF data.duration = <<>> THEN F32(1, 1) ELSE data.duration[1]
             loop_type == IF data.loop = <<>> THEN Ok("Once")
                          ELSE Loop_inner_translate(data.loop[1])
             curve_time == IF data.curve_time = <<>> THEN Ok("Absolute")
                           ELSE CurveTime_inner_translate(data.curve_time[1])
             curve == KeyFramed_curve(data, variant)
         IN  IF loop_type.status # "Ok" THEN loop_type
             ELSE IF curve_time.status # "Ok" THEN curve_time
             ELSE IF curve.status # "Ok" THEN curve
             ELSE Ok([variant |-> variant,
                      curve |-> curve.value,
                      offset |-> 0,
                      property |-> data.property[1],
                      loop_type |-> loop_type.value,
                      duration |-> AsI64(F32Mul(duration, AsF32(MsPerSecond))),
                      curve_time |-> curve_time.value])

\* Translatable<CurveTrack>::inner_translate
CurveTrack_inner_translate(pon) ==
    IF pon.type_name = "key_framed" THEN KeyFramed_translate(pon, "CurveTrack")
    ELSE IF pon.type_name = "fixed_value"
    THEN IF pon.property = <<>> \/ pon.value = <<>> THEN Err("MissingField")
         ELSE Ok(CurveTrack_new_fixed_value(pon.property[1],
                                            Animatable_translate(pon.value[1])))
    ELSE Err("UnrecognizedType")

\* Translatable<Animation>::inner_translate
Animation_inner_translate(pon) ==
    IF pon.type_name = "key_framed" THEN KeyFramed_translate(pon, "Animation")
    ELSE IF pon.type_name = "fixed_value"
    THEN IF pon.property = <<>> \/ pon.value = <<>> THEN Err("MissingField")
         ELSE Ok(Animation_new_fixed_value(pon.property[1], pon.value[1]))
    ELSE Err("UnrecognizedType")

\* Translatable<TrackSet> (track_set.rs is not among the sources): the nested
\* leaf configurations in declaration order, failing with the first that fails.
RECURSIVE TrackSet_translate(_)
TrackSet_translate(pons) ==
    IF pons = <<>> THEN Ok(<<>>)
    ELSE LET t == CurveTrack_inner_translate(Head(pons))
         IN  IF t.status # "Ok" THEN t
             ELSE LET rest == TrackSet_translate(Tail(pons))
                  IN  IF rest.status # "Ok" THEN rest
                      ELSE Ok(<<t.value>> \o rest.value)

\* Translatable<Box<Track>>::inner_translate.  context.document is <<>> or
\* <<document>>; each unwrap() panics on None.  The "weighted_tracks" arm
\* (weighted_tracks.rs, not among the sources) is not modelled and that tag
\* is never drawn.
Track_inner_translate(pon, context) ==
    IF pon.type_name \in {"key_framed", "fixed_value"} THEN CurveTrack_inner_translate(pon)
    ELSE IF pon.type_name = "track_set"
    THEN LET ts == TrackSet_translate(pon.tracks)
         IN  IF ts.status # "Ok" THEN ts
             ELSE Ok([variant |-> "TrackSet", tracks |-> ts.value])
    ELSE IF pon.type_name = "track_set_from_resource"
    THEN IF pon.id = <<>> THEN Err("MismatchType")
         ELSE IF context.document = <<>> THEN Panic
         ELSE LET resources == context.document[1].resources
                  resource_id == pon.id[1]
              IN  IF resource_id \notin DOMAIN resources THEN Panic
                  ELSE IF resources[resource_id].type # "TrackSet" THEN Panic
                  ELSE Ok([variant |-> "TrackSetFromResource",
                           resource |-> resources[resource_id]])
    ELSE Err("UnrecognizedType")

(***************************************************************************)
(* Inputs                                                                  *)
(***************************************************************************)
TickMs == 250

MaxTick == 12

NegTicks == 2

\* Elapsed times handed to value_at: a grid, the neighbours of the
\* boundaries of the durations used, and times beyond one and two weeks.
Times ==
    {k * TickMs : k \in (0 - NegTicks)..MaxTick}
        \cup {0, 1, 2, 3, 4, 5, 6, 100, 300, 500, 600, 999, 1000, 1001, 1100, 1300,
              1500, 1600, 2000, 2001, 2300}
        \cup {Week, Week + 1, Week + 600, 2 * Week + 600}

Zero == F32(0, 1)

One == F32(1, 1)

Half == F32(1, 2)

KeyObject(t, v) == [pon |-> "Object", time |-> t, value |-> v]

KeyArray(arr) == [pon |-> "Array", arr |-> arr]

KeyFloatArray(arr) == [pon |-> "FloatArray", arr |-> arr]

\* The "keys" field: absent, or a list of key Pons.
KeysFields ==
    { <<>>,
      << <<>> >>,
      << <<KeyObject(<<Zero>>, <<Zero>>), KeyObject(<<One>>, <<One>>)>> >>,
      << <<KeyArray(<<Zero, Zero>>), KeyObject(<<One>>, <<One>>)>> >>,
      << <<KeyFloatArray(<<Zero, Zero>>), KeyFloatArray(<<Half, One>>),
           KeyObject(<<One>>, <<Zero>>)>> >>,
      << <<[pon |-> "String"]>> >>,
      << <<KeyObject(<<Zero>>, <<Zero>>), [pon |-> "String"]>> >>,
      << <<KeyObject(<<Zero>>, <<Zero>>), KeyObject(<<>>, <<One>>)>> >>,
      << <<KeyArray(<<Zero>>)>> >>,
      << <<KeyObject(<<Zero>>, <<Zero>>), KeyFloatArray(<<One>>)>> >> }

\* The "duration" field in seconds: absent, -1.0, 0.0, 0.0004, 0.003, 2.0
DurationFields ==
    { <<>>, <<F32(0 - 1, 1)>>, <<Zero>>, <<F32(4, 10000)>>, <<F32(3, 1000)>>,
      <<F32(2, 1)>> }

LoopFields == { <<>>, <<"forever">>, <<"once">>, <<"pingpong">> }

CurveTimeFields == { <<>>, <<"absolute">>, <<"relative">>, <<"ticks">> }

PropertyFields == { <<>>, <<"x">> }

LeafPons ==
    [type_name : {"key_framed"}, property : PropertyFields, duration : DurationFields,
     loop : LoopFields, curve_time : CurveTimeFields, keys : KeysFields, value : {<<>>}]
    \cup
    [type_name : {"fixed_value", "sprite"}, property : PropertyFields, duration : {<<>>},
     loop : {<<>>}, curve_time : {<<>>}, keys : {<<>>}, value : {<<>>, <<Half>>}]

LeafPon(type_name, loop, keys, value) ==
    [type_name |-> type_name, property |-> <<"x">>, duration |-> <<>>, loop |-> loop,
     curve_time |-> <<>>, keys |-> keys, value |-> value]

LinearKeys == << <<KeyObject(<<Zero>>, <<Zero>>), KeyObject(<<One>>, <<One>>)>> >>

TrackSetPons ==
    { [type_name |-> "track_set", tracks |-> ts] :
        ts \in { <<>>,
                 <<LeafPon("key_framed", <<"forever">>, LinearKeys, <<>>),
                   LeafPon("fixed_value", <<>>, <<>>, <<Half>>)>>,
                 <<LeafPon("key_framed", <<>>, LinearKeys, <<>>),
                   LeafPon("key_framed", <<>>, << <<>> >>, <<>>)>>,
                 <<LeafPon("fixed_value", <<>>, <<>>, <<Half>>),
                   LeafPon("sprite", <<>>, <<>>, <<>>)>> } }

ResourcePons ==
    { [type_name |-> "track_set_from_resource", id |-> id] :
        id \in { <<>>, <<"walk">>, <<"logo">>, <<"missing">> } }

LinearCurve(variant) ==
    [type |-> "LinearKeyFrameCurve",
     keys |-> IF variant = "Animation"
              THEN << <<Zero, Zero>>, <<One, One>> >>
              ELSE << <<Zero, new_float(Zero)>>, <<One, new_float(One)>> >>]

\* The external resource registry: one published track set and one resource
\* of another type.
Resources ==
    [id \in {"walk", "logo"} |->
        IF id = "walk"
        THEN [type |-> "TrackSet",
              tracks |-> << [variant |-> "CurveTrack", curve |-> LinearCurve("CurveTrack"),
                             offset |-> 0, property |-> "x", loop_type |-> "Once",
                             duration |-> 1000, curve_time |-> "Absolute"],
                            CurveTrack_new_fixed_value("y", new_float(Half)) >>]
        ELSE [type |-> "Texture", tracks |-> <<>>]]

NoContext == [document |-> <<>>]

Contexts == { NoContext, [document |-> << [resources |-> Resources] >>] }

NoPon == [type_name |-> ""]

NotEvaluated == Returned(<<>>, <<>>)

(***************************************************************************)
(* The driver: one track is constructed, then evaluated tick after tick.   *)
(***************************************************************************)
Init ==
    /\ config = NoPon
    /\ ctx = NoContext
    /\ outcome = [status |-> "None", err |-> ""]
    /\ track = NoTrack
    /\ op = "init"
    /\ elapsed = 0
    /\ result = NotEvaluated

\* pon.translate::<CurveTrack>()
TranslateCurveTrack ==
    \E p \in LeafPons :
        LET r == CurveTrack_inner_translate(p)
        IN  /\ op = "init"
            /\ config' = p
            /\ ctx' = NoContext
            /\ outcome' = [status |-> r.status, err |-> r.err]
            /\ track' = r.value
            /\ op' = "translate"
            /\ UNCHANGED <<elapsed, result>>

\* pon.translate::<Animation>()
TranslateAnimation ==
    \E p \in LeafPons :
        LET r == Animation_inner_translate(p)
        IN  /\ op = "init"
            /\ config' = p
            /\ ctx' = NoContext
            /\ outcome' = [status |-> r.status, err |-> r.err]
            /\ track' = r.value
            /\ op' = "translate"
            /\ UNCHANGED <<elapsed, result>>

\* pon.translate::<Box<Track>>(context)
TranslateTrack ==
    \E p \in LeafPons \cup TrackSetPons \cup ResourcePons, c \in Contexts :
        LET r == Track_inner_translate(p, c)
        IN  /\ op = "init"
            /\ config' = p
            /\ ctx' = c
            /\ outcome' = [status |-> r.status, err |-> r.err]
            /\ track' = r.value
            /\ op' = "translate"
            /\ UNCHANGED <<elapsed, result>>

\* CurveTrack::new_fixed_value(property, value)
NewFixedValueCurveTrack ==
    \E property \in {"x", "y"}, f \in {Zero, Half} :
        /\ op = "init"
        /\ track' = CurveTrack_new_fixed_value(property, new_float(f))
        /\ outcome' = [status |-> "Ok", err |-> ""]
        /\ op' = "new"
        /\ UNCHANGED <<config, ctx, elapsed, result>>

\* Animation::new_fixed_value(property, value)
NewFixedValueAnimation ==
    \E property \in {"x", "y"}, f \in {Zero, Half} :
        /\ op = "init"
        /\ track' = Animation_new_fixed_value(property, f)
        /\ outcome' = [status |-> "Ok", err |-> ""]
        /\ op' = "new"
        /\ UNCHANGED <<config, ctx, elapsed, result>>

\* A struct literal, as in test_animation
Literal ==
    \E variant \in {"CurveTrack", "Animation"}, offset \in {0, 300},
       loop_type \in {"Forever", "Once"}, duration \in {1000, 2000},
       curve_time \in {"Absolute", "Relative"} :
        /\ op = "init"
        /\ track' = [variant |-> variant, curve |-> LinearCurve(variant),
                     offset |-> offset, property |-> "x", loop_type |-> loop_type,
                     duration |-> duration, curve_time |-> curve_time]
        /\ outcome' = [status |-> "Ok", err |-> ""]
        /\ op' = "literal"
        /\ UNCHANGED <<config, ctx, elapsed, result>>

\* An evaluation that keeps the time of the call in the track
EvaluateStateful ==
    \E t \in Times :
        /\ op # "init"
        /\ outcome.status = "Ok"
        /\ ~result.panic
        /\ elapsed' = t
        /\ result' = value_at(track, t)
        /\ op' = "value_at"
        /\ track' = IF track.variant \in {"CurveTrack", "Animation"}
                    THEN [track EXCEPT !.offset = t]
                    ELSE track
        /\ UNCHANGED <<config, ctx, outcome>>

\* track.value_at(time): &self, so the track is only read.  A panic unwinds
\* the driver, which makes no further call.
Evaluate ==
    \E t \in Times :
        /\ op # "init"
        /\ outcome.status = "Ok"
        /\ ~result.panic
        /\ elapsed' = t
        /\ result' = value_at(track, t)
        /\ op' = "value_at"
        /\ UNCHANGED <<config, ctx, outcome, track>>

Next ==
    \/ TranslateCurveTrack
    \/ TranslateAnimation
    \/ TranslateTrack
    \/ NewFixedValueCurveTrack
    \/ NewFixedValueAnimation
    \/ Literal
    \/ Evaluate

Spec == Init /\ [][Next]_vars

(***************************************************************************)
(* Properties                                                              *)
(***************************************************************************)
IsLeaf(t) == t.variant \in {"CurveTrack", "Animation"}

Evaluated == op = "value_at"

\* The value v in the shape the track's curve produces
ValueOf(t, v) == IF t.variant = "Animation" THEN v ELSE new_float(v)

OnePair(r) == ~r.panic /\ Len(r.pairs) = 1

Empty(r) == ~r.panic /\ r.pairs = <<>>

InUnitInterval(f) == F32Leq(Zero, f) /\ F32Leq(f, One)

\* C1: for a looping leaf track with offset 0 and duration d > 0,
\* evaluate(d + x) returns the same pairs as evaluate(x) for every x with
\* 0 <= x < d, x = 0 included.
C1_WrapEquivalence ==
    [][(/\ Evaluated
        /\ op' = "value_at"
        /\ IsLeaf(track)
        /\ track.loop_type = "Forever"
        /\ track.offset = 0
        /\ track.duration > 0
        /\ 0 <= elapsed
        /\ elapsed < track.duration
        /\ elapsed' = track.duration + elapsed)
       => (~result'.panic /\ ~result.panic /\ result'.pairs = result.pairs)]_vars

\* C2: the leaf track of test_animation (offset 0, duration 1 s, Absolute,
\* Once, keys [(0,0),(1,1)]) returns [(prop, t/1000)] for 0 <= t <= 1000 ms
\* and the empty sequence for t > 1000 ms.
C2_LinearOnce ==
    (/\ Evaluated
     /\ IsLeaf(track)
     /\ track.offset = 0
     /\ track.duration = 1000
     /\ track.curve_time = "Absolute"
     /\ track.loop_type = "Once"
     /\ track.curve = LinearCurve(track.variant)
     /\ elapsed >= 0)
    => /\ ~result.panic
       /\ elapsed <= 1000 =>
            result.pairs = << <<track.property, ValueOf(track, F32(elapsed, 1000))>> >>
       /\ elapsed > 1000 => result.pairs = <<>>

C2_Witness ==
    /\ Evaluated
    /\ IsLeaf(track)
    /\ track.loop_type = "Once"
    /\ track.curve = LinearCurve(track.variant)
    /\ track.offset = 0
    /\ track.duration = 1000
    /\ track.curve_time = "Absolute"
    /\ elapsed = 600
    /\ result.pairs = << <<"x", ValueOf(track, F32(6, 10))>> >>

\* C3: whenever a Relative leaf track emits a pair, the curve was sampled
\* at local_ms / duration_ms, and for elapsed >= offset that parameter lies
\* in [0, 1]; with duration 2 s and keys [(0,0),(1,1)], evaluate(1 s) is
\* [(prop, 0.5)].
C3_RelativeParameter ==
    (/\ Evaluated
     /\ IsLeaf(track)
     /\ track.curve_time = "Relative"
     /\ OnePair(result)
     /\ elapsed >= track.offset)
    => /\ result.sampled[1] =
             F32(IF elapsed - track.offset > track.duration
                 THEN Rem(elapsed - track.offset, track.duration)
                 ELSE elapsed - track.offset,
                 track.duration)
       /\ InUnitInterval(result.sampled[1])
       /\ (/\ track.duration = 2000
           /\ track.offset = 0
           /\ track.curve = LinearCurve(track.variant)
           /\ elapsed = 1000)
          => result.pairs = << <<track.property, ValueOf(track, Half)>> >>

\* C4: a track built by new_fixed_value(property, v) returns exactly
\* [(property, v)] at every elapsed time, never the empty sequence.
C4_FixedValue ==
    (/\ Evaluated
     /\ IsLeaf(track)
     /\ track.curve.type = "FixedValueCurve")
    => /\ ~result.panic
       /\ result.pairs = << <<track.property, track.curve.value>> >>

C4_Witness ==
    /\ Evaluated
    /\ IsLeaf(track)
    /\ track.curve.type = "FixedValueCurve"
    /\ elapsed = 2 * Week + 600
    /\ result.pairs = << <<"x", new_float(Half)>> >>

\* C5: on every leaf track that construction returned, evaluate completes
\* at every elapsed time with zero or one pairs; it never panics.
C5_EvaluateTotal ==
    (Evaluated /\ IsLeaf(track)) => (~result.panic /\ Len(result.pairs) <= 1)

\* C6: constructing a key_framed track with a configured duration <= 0
\* fails with an error (where nothing else makes the translation panic), so
\* every constructed leaf track has duration > 0.
C6_PositiveDuration ==
    /\ (/\ op = "translate"
        /\ config.type_name = "key_framed"
        /\ config.duration # <<>>
        /\ F32Leq(config.duration[1], Zero)
        /\ outcome.status # "Panic")
       => outcome.status = "Err"
    /\ (op = "translate" /\ outcome.status = "Ok" /\ IsLeaf(track))
       => track.duration > 0

\* C7: constructing a key_framed track with an empty keys list returns a
\* translation error; it does not panic.
C7_EmptyKeys ==
    (/\ op = "translate"
     /\ config.type_name = "key_framed"
     /\ config.keys = << <<>> >>)
    => outcome.status = "Err"

\* C8: constructing a track_set_from_resource track whose identifier is not
\* in the registry, or without a document, or naming a resource that is no
\* track set, returns an error; it does not panic.
C8_UnresolvedResource ==
    (/\ op = "translate"
     /\ config.type_name = "track_set_from_resource"
     /\ \/ config.id = <<>>
        \/ ctx.document = <<>>
        \/ config.id[1] \notin DOMAIN ctx.document[1].resources
        \/ ctx.document[1].resources[config.id[1]].type # "TrackSet")
    => outcome.status = "Err"

\* C9: an evaluation leaves the track unchanged, so it returns what the
\* track as constructed returns at that time, whatever was evaluated before
\* (the same time twice gives the same result); a shared-resource reference
\* returns the referenced track set's result at the unchanged time.
C9_EvaluatePure ==
    [][op' = "value_at"
       => /\ track' = track
          /\ result' = value_at(track, elapsed')
          /\ (op = "value_at" /\ elapsed' = elapsed) => result' = result
          /\ track.variant = "TrackSetFromResource"
               => result' = TrackSet_value_at(track.resource, elapsed')]_vars

C9_Witness ==
    /\ Evaluated
    /\ track.variant = "TrackSetFromResource"
    /\ elapsed = 600
    /\ result.pairs = << <<"x", new_float(F32(6, 10))>>, <<"y", new_float(Half)>> >>

\* C10: a Once leaf track with duration > 0 emits exactly one pair while
\* elapsed - offset <= duration (before the offset too) and the empty
\* sequence once elapsed - offset > duration, so an empty result stays empty
\* at every later time; a Forever leaf track never returns the empty sequence.
C10_OnceFinishes ==
    [][(op' = "value_at" /\ IsLeaf(track'))
       => /\ (track'.loop_type = "Once" /\ track'.duration > 0)
             => /\ elapsed' - track'.offset <= track'.duration => OnePair(result')
                /\ elapsed' - track'.offset > track'.duration => Empty(result')
                /\ (op = "value_at" /\ Empty(result) /\ elapsed' >= elapsed)
                   => Empty(result')
          /\ track'.loop_type = "Forever" => ~Empty(result')]_vars

C10_Witness ==
    /\ Evaluated
    /\ IsLeaf(track)
    /\ track.loop_type = "Once"
    /\ track.offset = 300
    /\ track.duration = 1000
    /\ elapsed = 1300
    /\ OnePair(result)

====
